---- MODULE Spec2Model ----
(***************************************************************************)
(* Model of faulted_earth_fault.py: the Faulted Earth data model classes.  *)
(* Every call of a function or constructor of the module is one action;    *)
(* its outcome (the value returned, or the exception that propagates to    *)
(* the caller) is recorded in `call`, the Parameter objects that exist are *)
(* kept in `heap`.                                                         *)
(***************************************************************************)
EXTENDS Integers, Sequences, FiniteSets, TLC

VARIABLES heap, call

vars == <<heap, call>>

(***************************************************************************)
(* Bounds of the model.                                                    *)
(***************************************************************************)
MaxVal == 1        \* numbers drawn as inputs are 0..MaxVal
MaxLen == 4        \* longest tuple handed to build_pref_min_max
MaxN == 4          \* largest nval handed to build_pref_min_max
MaxObjects == 2    \* objects constructed in one run

(***************************************************************************)
(* Python values: a type tag and a payload.                                *)
(***************************************************************************)
None == [t |-> "NoneType", v |-> 0]
PyInt(i) == [t |-> "int", v |-> i]
Str(s) == [t |-> "str", v |-> s]
Bool(b) == [t |-> "bool", v |-> IF b THEN 1 ELSE 0]
Tuple(s) == [t |-> "tuple", v |-> s]
List(s) == [t |-> "list", v |-> s]
Dict(f) == [t |-> "dict", v |-> f]
Ref(cls, i) == [t |-> cls, v |-> i]
APoint == [t |-> "Point", v |-> 0]
ALine == [t |-> "Line", v |-> 0]

\* bool(x) of a value: None, 0, False, empty containers and '' are false.
Truthy(x) ==
    CASE x.t = "NoneType" -> FALSE
      [] x.t \in {"int", "bool"} -> x.v # 0
      [] x.t \in {"tuple", "list"} -> Len(x.v) > 0
      [] x.t = "str" -> x.v # ""
      [] x.t = "dict" -> DOMAIN x.v # {}
      [] OTHER -> TRUE

\* isinstance(x, cls) for the classes of the model (int and float are both "int").
isinstance(x, cls) == x.t = cls

(***************************************************************************)
(* Outcome of evaluating an expression or a call: the exception raised     *)
(* (NoExc when none) and the value.                                        *)
(***************************************************************************)
NoExc == [type |-> "none", msg |-> ""]
ValueError(m) == [type |-> "ValueError", msg |-> m]
TypeError(m) == [type |-> "TypeError", msg |-> m]
KeyError(k) == [type |-> "KeyError", msg |-> k]
NameError(n) == [type |-> "NameError", msg |-> n]
AssertionError == [type |-> "AssertionError", msg |-> ""]

\* The error names of the specification, as the exceptions the code raises for them.
ShapeError == ValueError("Preferred-Min-Max must be a tuple of length 3!")
RangeError == ValueError("Minimum value in tuple is greater than maximum!")
TypeConstraintError == AssertionError
MissingFieldError(k) == KeyError(k)

Return(x) == [exc |-> NoExc, ret |-> x]
Raise(e) == [exc |-> e, ret |-> None]

\* x and y: y is evaluated only when x is true; the value is an operand.
PyAnd(x, y) ==
    IF x.exc # NoExc THEN x
    ELSE IF ~Truthy(x.ret) THEN x
    ELSE y

\* x > y on two evaluated operands.
PyGt(x, y) ==
    IF x.exc # NoExc THEN x
    ELSE IF y.exc # NoExc THEN y
    ELSE Return(Bool(x.ret.v > y.ret.v))

\* value(i) where value is a tuple: a call expression, and a tuple is not callable.
TupleCall(value, i) == Raise(TypeError("'tuple' object is not callable"))

\* A length test that lets a tuple that is too short through.
LengthMismatchStrict(value, nval) == Len(value.v) > nval

\* len(value) != nval (line 23)
LengthMismatch(value, nval) == Len(value.v) # nval

\* (nval > 2) and value(1) and value(2) and (value(1) > value(2))  (line 26)
MinAboveMax(value, nval) ==
    PyAnd(Return(Bool(nval > 2)),
          PyAnd(TupleCall(value, 1),
                PyAnd(TupleCall(value, 2),
                      PyGt(TupleCall(value, 1), TupleCall(value, 2)))))

\* len(range(a, b))
RangeLen(a, b) == IF b > a THEN b - a ELSE 0

\* A padding of nval elements instead of nval - 1.
PaddingOffByOne(nval) == [i \in 1..RangeLen(0, nval) |-> None]

\* [None for val in range(0, nval - 1)]  (line 32)
Padding(nval) == [i \in 1..RangeLen(0, nval - 1) |-> None]

build_pref_min_max(value, nval) ==
    IF isinstance(value, "tuple")
    THEN IF LengthMismatch(value, nval)
         THEN Raise(ShapeError)
         ELSE LET c == MinAboveMax(value, nval) IN
              IF c.exc # NoExc THEN c
              ELSE IF Truthy(c.ret) THEN Raise(RangeError)
              ELSE Return(value)
    ELSE Return(Tuple(<<value>> \o Padding(nval)))

(***************************************************************************)
(* Names, dictionaries and objects.                                        *)
(***************************************************************************)
\* The names bound at module level (lines 7-312).
ModuleNames ==
    {"np", "Point", "Line", "Polygon", "build_pref_min_max", "Parameter",
     "_assert_assign", "BaseObservation", "ObservationDisplacement",
     "ObservationEvent", "ObservationGeometry", "ObservationSlipRate",
     "FaultTrace", "Displacement", "BaseFault", "NeotectonicSection",
     "NeotectonicFault"}

\* The value of a name in a function body: a local of the function, else a
\* module-level name, else NameError (no builtin has one of the names used).
Lookup(name, env) ==
    IF name \in DOMAIN env THEN Return(env[name])
    ELSE IF name \in ModuleNames THEN Return(Ref("global", 0))
    ELSE Raise(NameError(name))

\* attributes[key]
GetItem(attributes, key) ==
    IF key \in DOMAIN attributes.v THEN Return(attributes.v[key])
    ELSE Raise(KeyError(key))

\* An object under construction: the exception raised so far and the
\* attributes set so far.
NewObject == [exc |-> NoExc, obj |-> <<>>]

\* <target>.field = <expression r>, skipped once a statement has raised: the
\* expression is evaluated first, then the target.
SetAttr(st, target, field, r) ==
    IF st.exc # NoExc THEN st
    ELSE IF r.exc # NoExc THEN [st EXCEPT !.exc = r.exc]
    ELSE IF target.exc # NoExc THEN [st EXCEPT !.exc = target.exc]
    ELSE [st EXCEPT !.obj = (field :> r.ret) @@ st.obj]

\* assert <expression r>, skipped once a statement has raised.
AssertStmt(st, r) ==
    IF st.exc # NoExc THEN st
    ELSE IF r.exc # NoExc THEN [st EXCEPT !.exc = r.exc]
    ELSE IF ~Truthy(r.ret) THEN [st EXCEPT !.exc = AssertionError]
    ELSE st

Parameter__init__(value, minimum, maximum, completeness, distribution) ==
    LET self == Return(Ref("Parameter", 0))
        s1 == SetAttr(NewObject, self, "value", Return(value))
        s2 == SetAttr(s1, self, "minimum", Return(minimum))
        s3 == SetAttr(s2, self, "maximum", Return(maximum))
        s4 == SetAttr(s3, self, "completeness", Return(completeness))
        s5 == SetAttr(s4, self, "distribution", Return(distribution))
    IN  SetAttr(s5, self, "comment", Return(None))

_assert_assign(value) ==
    IF isinstance(value, "Parameter") THEN Return(value)
    ELSE Raise(AssertionError)

\* _assert_assign(<expression r>)
AssertAssign(r) == IF r.exc # NoExc THEN r ELSE _assert_assign(r.ret)

\* One statement of a constructor body that reads the attribute mapping:
\*   self.field = attributes[key]                     (Plain)
\*   self.field = _assert_assign(attributes[key])     (Envelope)
Plain(field, key) == [field |-> field, key |-> key, envelope |-> FALSE]
Envelope(field, key) == [field |-> field, key |-> key, envelope |-> TRUE]

\* The statements of `body` from the i-th on, run in order on st.
RECURSIVE RunFrom(_, _, _, _, _)
RunFrom(st, self, body, i, attributes) ==
    IF i > Len(body) THEN st
    ELSE LET item == GetItem(attributes, body[i].key)
             rhs == IF body[i].envelope THEN AssertAssign(item) ELSE item
         IN  RunFrom(SetAttr(st, self, body[i].field, rhs), self, body, i + 1,
                     attributes)

RunBody(st, self, body, attributes) == RunFrom(st, self, body, 1, attributes)

\* The keys a body reads, and those it requires a Parameter for.
Keys(body) == {body[i].key : i \in DOMAIN body}
EnvelopeKeys(body) == {body[i].key : i \in {j \in DOMAIN body : body[j].envelope}}

(***************************************************************************)
(* Observations.                                                           *)
(***************************************************************************)
\* attributes['Accuracy'] if it is true, else 2 * scale for a numeric scale,
\* else None (lines 106-111).
Accuracy(st, attributes) ==
    LET given == GetItem(attributes, "Accuracy") IN
    IF st.exc # NoExc THEN Return(None)
    ELSE IF given.exc # NoExc THEN given
    ELSE IF Truthy(given.ret) THEN GetItem(attributes, "Accuracy")
    ELSE IF isinstance(st.obj["scale"], "int")
         THEN Return(PyInt(2 * st.obj["scale"].v))
    ELSE Return(None)

\* Lines 112-114.
BaseObservationBody ==
    <<Plain("notes", "Notes"),
      Plain("fault_section", "Fault Section"),
      Plain("site_feature", "Site Feature")>>

\* The parameter of __init__ is spelled `identifer`; the body reads `identifier`.
BaseObservation__init__(identifer, location, attributes) ==
    LET env == [self |-> Ref("BaseObservation", 0), identifer |-> identifer,
                location |-> location, attributes |-> attributes]
        self == Lookup("self", env)
        s1 == SetAttr(NewObject, self, "id", Lookup("identifier", env))
        s2 == AssertStmt(s1, Return(Bool(isinstance(location, "Point"))))
        s3 == SetAttr(s2, self, "location", Return(location))
        s4 == SetAttr(s3, self, "scale", GetItem(attributes, "Scale"))
        s5 == SetAttr(s4, self, "accuracy", Accuracy(s4, attributes))
    IN  RunBody(s5, self, BaseObservationBody, attributes)

ObservationDisplacementBody ==
    <<Plain("total_disp", "Total Displacement"),
      Plain("category", "Category"),
      Plain("horizontal_disp", "Horizontal"),
      Plain("vertical_disp", "Vertical"),
      Plain("net_disp", "Net"),
      Envelope("displacement", "Displacement")>>

ObservationEventBody ==
    <<Envelope("recurrence", "Recurrence Interval"),
      Plain("recurrence_category", "Recurrence Category"),
      Envelope("movement", "Movement"),
      Plain("movement_category", "Movement Category"),
      Plain("historic_event", "Historic Event"),
      Plain("prehistoric_event", "Prehistoric Event"),
      Plain("marker_age", "Marker Age")>>

ObservationGeometryBody ==
    <<Plain("dip_dir", "Dip Direction"),
      Plain("down_side", "Downthrown Side"),
      Plain("strike", "Strike"),
      Plain("dip", "Dip")>>

ObservationSlipRateBody ==
    <<Envelope("dip_slip", "Dip Slip"),
      Envelope("strike_slip", "Strike-Slip"),
      Envelope("vertical_slip", "Vertical"),
      Envelope("net_slip", "Net Slip"),
      Envelope("hv_ratio", "HV Ratio"),
      Envelope("rake", "Rake"),
      Plain("slip_category", "Slip Category"),
      Envelope("slip_type", "Slip Type"),
      Envelope("aseismic", "Aseismic")>>

ObservationClasses ==
    {"ObservationDisplacement", "ObservationEvent", "ObservationGeometry",
     "ObservationSlipRate"}

\* The statements of cls.__init__ after the call of the base constructor.
OwnBody(cls) ==
    CASE cls = "ObservationDisplacement" -> ObservationDisplacementBody
      [] cls = "ObservationEvent" -> ObservationEventBody
      [] cls = "ObservationGeometry" -> ObservationGeometryBody
      [] cls = "ObservationSlipRate" -> ObservationSlipRateBody

\* cls.__init__(self, identifier, location, attributes) of an observation
\* class: super().__init__(identifier, location, attributes), then its own body.
Observation__init__(cls, identifier, location, attributes) ==
    RunBody(BaseObservation__init__(identifier, location, attributes),
            Return(Ref(cls, 0)), OwnBody(cls), attributes)

(***************************************************************************)
(* Faults.                                                                 *)
(***************************************************************************)
\* Lines 234-260.
BaseFaultBody ==
    <<Plain("is_episodic", "Episodic"),
      Plain("strike", "Strike"),
      Plain("surface_dip", "Surface Dip"),
      Plain("downside", "Downthrown Side"),
      Envelope("upper_seismogenic_depth", "Upper Depth"),
      Envelope("lower_seismogenic_depth", "Lower Depth"),
      Envelope("dip", "Dip"),
      Envelope("dip_direction", "Dip Direction"),
      Envelope("dip_slip", "Dip Slip"),
      Envelope("strike_slip", "Strike Slip"),
      Envelope("vertical_slip", "Vertical Slip"),
      Envelope("aspect", "HV Ratio"),
      Envelope("slip", "Net Slip"),
      Plain("slip_category", "Slip Category"),
      Envelope("rake", "Rake"),
      Envelope("slip_type", "Slip Type"),
      Envelope("aseismic", "Aseismic"),
      Plain("displacement", "Displacement"),
      Envelope("recurrence", "Recurrence"),
      Envelope("movement", "Movement"),
      Plain("historic", "Historical Event"),
      Plain("prehistoric", "Pre-historic")>>

\* BaseFault(*pos). __init__ is declared without self: the new object is bound
\* to `identifier` and the call arguments to `name` and `attributes`; any other
\* number of call arguments does not fit the three parameters. The body
\* assigns to `self`, which is no name of the function.
BaseFault__init__(pos) ==
    IF Len(pos) + 1 # 3
    THEN [NewObject EXCEPT
             !.exc = TypeError("__init__() takes exactly 3 arguments")]
    ELSE
    LET attributes == pos[2]
        env == [identifier |-> Ref("BaseFault", 0), name |-> pos[1],
                attributes |-> attributes]
        self == Lookup("self", env)
        s1 == SetAttr(NewObject, self, "id", Lookup("identifier", env))
        s2 == SetAttr(s1, self, "name", Lookup("name", env))
        s3 == SetAttr(s2, self, "geometry", Return(None))
        s4 == SetAttr(s3, self, "length", Return(None))
        s5 == RunBody(s4, self, BaseFaultBody, attributes)
        s6 == SetAttr(s5, self, "compiler", Return(None))
        s7 == SetAttr(s6, self, "contributor", Return(None))
        s8 == SetAttr(s7, self, "created", Return(None))
    IN  SetAttr(s8, self, "comment", Return(None))

\* A call of a function declared with one parameter: one argument, positional
\* or by the parameter's name, fits; anything else is a TypeError.
FitsOneParameter(pos, kw, parameter) ==
    \/ Len(pos) = 1 /\ DOMAIN kw = {}
    \/ Len(pos) = 0 /\ DOMAIN kw = {parameter}

\* NeotectonicSection is declared with def: a function of one parameter
\* (BaseFault) whose body defines a local function __init__ and ends, so a
\* call that fits returns None.
NeotectonicSection(pos, kw) ==
    IF FitsOneParameter(pos, kw, "BaseFault") THEN Return(None)
    ELSE Raise(TypeError("NeotectonicSection() takes exactly 1 argument"))

\* NeotectonicFault is declared with def as well, with one parameter (object).
NeotectonicFault(pos, kw) ==
    IF FitsOneParameter(pos, kw, "object") THEN Return(None)
    ELSE Raise(TypeError("NeotectonicFault() takes exactly 1 argument"))

(***************************************************************************)
(* Inputs.                                                                 *)
(***************************************************************************)
Numbers == {PyInt(i) : i \in 0..MaxVal}
Scalars == {None} \cup Numbers
TupleValues == {Tuple(s) : s \in UNION {[1..n -> Scalars] : n \in 0..MaxLen}}
Arities == 0..MaxN

ScaleValues == Scalars \cup {Str("unknown")}
SectionIds == {None, Str("S1")}
Locations == {APoint, ALine}
NotParameters == {None, PyInt(1)}
BaseKeys == {"Scale", "Accuracy"} \cup Keys(BaseObservationBody)

\* The Parameter objects that exist.
ParameterRefs ==
    {Ref("Parameter", i) : i \in {j \in DOMAIN heap : heap[j].cls = "Parameter"}}

\* An attribute mapping keyed by `keys`: the given entries, `p` under every key
\* of `envelope`, None under the others.
FullMapping(keys, envelope, given, p) ==
    [k \in keys |-> IF k \in DOMAIN given THEN given[k]
                    ELSE IF k \in envelope THEN p
                    ELSE None]

\* What is wrong with a mapping handed to a constructor: nothing, one key
\* absent, or a value that is no Parameter under one envelope key.
NoDefect == [kind |-> "none", key |-> "", value |-> None]
Defects(keys, envelope) ==
    {NoDefect}
    \cup {[kind |-> "missing", key |-> k, value |-> None] : k \in keys}
    \cup {[kind |-> "plain", key |-> k, value |-> x] :
              k \in envelope, x \in NotParameters}

WithDefect(f, d) ==
    CASE d.kind = "none" -> f
      [] d.kind = "missing" -> [k \in DOMAIN f \ {d.key} |-> f[k]]
      [] d.kind = "plain" -> [f EXCEPT ![d.key] = d.value]

ObservationKeys(cls) == BaseKeys \cup Keys(OwnBody(cls))

ObservationAttributes(cls, scale, accuracy, section, p, d) ==
    Dict(WithDefect(
        FullMapping(ObservationKeys(cls), EnvelopeKeys(OwnBody(cls)),
                    ("Scale" :> scale) @@ ("Accuracy" :> accuracy)
                        @@ ("Notes" :> Str("notes"))
                        @@ ("Fault Section" :> section), p), d))

FaultAttributes(p, d) ==
    Dict(WithDefect(
        FullMapping(Keys(BaseFaultBody), EnvelopeKeys(BaseFaultBody), <<>>, p),
        d))

FaultDefects == Defects(Keys(BaseFaultBody), EnvelopeKeys(BaseFaultBody))

\* Lists of at most three of the objects that exist.
ObjectLists ==
    {List(s) : s \in UNION {[1..n -> {Ref(heap[i].cls, i) : i \in DOMAIN heap}] :
                               n \in 0..3}}

(***************************************************************************)
(* Spec: any sequence of calls of the constructors and functions. No       *)
(* exception is caught in the module: one that is raised reaches the       *)
(* caller and ends the run.                                                *)
(***************************************************************************)
Init ==
    /\ heap = <<>>
    /\ call = [op |-> "none", args |-> <<>>, state |-> "idle", exc |-> NoExc,
               ret |-> None]

\* No exception has ended the run, and there is room for one more object.
CanCall == call.exc = NoExc /\ Len(heap) < MaxObjects

\* cls(...): the object is created when __init__ ends without an exception,
\* otherwise the exception reaches the caller and no object exists.
Construct(cls, args, st) ==
    IF st.exc = NoExc
       THEN /\ heap' = Append(heap, [cls |-> cls, attrs |-> st.obj])
            /\ call' = [op |-> cls, args |-> args, state |-> "done",
                        exc |-> NoExc, ret |-> Ref(cls, Len(heap) + 1)]
       ELSE /\ heap' = heap
            /\ call' = [op |-> cls, args |-> args, state |-> "done",
                        exc |-> st.exc, ret |-> None]

\* f(...) for a module-level function f with outcome r.
CallFunction(f, args, r) ==
    /\ heap' = heap
    /\ call' = [op |-> f, args |-> args, state |-> "done", exc |-> r.exc,
                ret |-> r.ret]

NewParameter ==
    /\ CanCall
    /\ \E value \in Scalars, minimum \in Scalars, maximum \in Scalars :
           Construct("Parameter",
                     [value |-> value, minimum |-> minimum, maximum |-> maximum],
                     Parameter__init__(value, minimum, maximum, None, None))

NewObservation ==
    /\ CanCall
    /\ \E cls \in ObservationClasses, location \in Locations,
          scale \in ScaleValues, accuracy \in Scalars, section \in SectionIds,
          p \in ParameterRefs :
         \E d \in Defects(ObservationKeys(cls), EnvelopeKeys(OwnBody(cls))) :
           LET attributes ==
                   ObservationAttributes(cls, scale, accuracy, section, p, d)
           IN  Construct(cls,
                         [identifier |-> Str("O1"), location |-> location,
                          attributes |-> attributes, defect |-> d, envelope |-> p],
                         Observation__init__(cls, Str("O1"), location, attributes))

NewBaseFault ==
    /\ CanCall
    /\ \E p \in ParameterRefs, d \in FaultDefects :
         \E pos \in {<<Str("F1"), Str("name"), FaultAttributes(p, d)>>,
                     <<Str("name"), FaultAttributes(p, d)>>} :
           Construct("BaseFault", [pos |-> pos, defect |-> d],
                     BaseFault__init__(pos))

CallNeotectonicSection ==
    /\ CanCall
    /\ \E p \in ParameterRefs, d \in FaultDefects, obs \in ObjectLists :
         \E a \in {[pos |-> <<Ref("global", 0)>>, kw |-> <<>>, defect |-> NoDefect],
                   [pos |-> <<Str("S1"), Str("name"), FaultAttributes(p, d)>>,
                    kw |-> <<>>, defect |-> d],
                   [pos |-> <<Str("S1"), Str("name"), FaultAttributes(p, d)>>,
                    kw |-> [geometry |-> ALine, slip_obs |-> obs], defect |-> d]} :
           CallFunction("NeotectonicSection", a,
                        NeotectonicSection(a.pos, a.kw))

CallNeotectonicFault ==
    /\ CanCall
    /\ \E p \in ParameterRefs, d \in FaultDefects,
          sections \in {List(<<>>), List(<<None>>), List(<<None, None>>)} :
         \E a \in {[pos |-> <<Ref("global", 0)>>, kw |-> <<>>, defect |-> NoDefect],
                   [pos |-> <<Str("F1"), Str("name"), sections>>, kw |-> <<>>,
                    defect |-> NoDefect],
                   [pos |-> <<Str("F1"), Str("name"), sections>>,
                    kw |-> [attributes |-> FaultAttributes(p, d)], defect |-> d],
                   [pos |-> <<Str("F1"), Str("name"), sections,
                              FaultAttributes(p, d)>>, kw |-> <<>>, defect |-> d]} :
           CallFunction("NeotectonicFault", a,
                        NeotectonicFault(a.pos, a.kw))

Next ==
    \/ NewParameter
    \/ NewObservation
    \/ NewBaseFault
    \/ CallNeotectonicSection
    \/ CallNeotectonicFault

Spec == Init /\ [][Next]_vars

(***************************************************************************)
(* SpecNorm: build_pref_min_max applied to every input of the bounded sets.*)
(***************************************************************************)
InitNorm ==
    /\ heap = <<>>
    /\ \E value \in Scalars \cup TupleValues, nval \in Arities :
          call = [op |-> "build_pref_min_max", value |-> value, nval |-> nval,
                  state |-> "pending", exc |-> NoExc, ret |-> None]

ApplyNorm ==
    /\ call.state = "pending"
    /\ LET r == build_pref_min_max(call.value, call.nval) IN
          call' = [call EXCEPT !.state = "done", !.exc = r.exc, !.ret = r.ret]
    /\ UNCHANGED heap

NextNorm == ApplyNorm

SpecNorm == InitNorm /\ [][NextNorm]_vars

NormDone == call.op = "build_pref_min_max" /\ call.state = "done"

\* The call was made on a tuple of exactly nval elements, nval > 2.
ExactTuple ==
    /\ NormDone
    /\ isinstance(call.value, "tuple")
    /\ Len(call.value.v) = call.nval
    /\ call.nval > 2

\* The minimum slot (second element) and the maximum slot (third element) of the
\* tuple are both non-null and minimum > maximum.
SlotsOutOfOrder ==
    /\ call.value.v[2] # None
    /\ call.value.v[3] # None
    /\ call.value.v[2].v > call.value.v[3].v

\* C1: on a tuple of exactly the expected length n > 2, the call fails with
\* RangeError when both bounds are non-null and minimum > maximum, and returns
\* the same tuple unchanged in every other case.
C1_RangeErrorOrUnchanged ==
    ExactTuple =>
        IF SlotsOutOfOrder
        THEN call.exc = RangeError
        ELSE call.exc = NoExc /\ call.ret = call.value

\* C2 (as stated): on any non-tuple value and any arity n the call never raises
\* and returns a sequence of length exactly n, first element the value, the
\* remaining n-1 elements null.
C2_BareValueAnyArity ==
    (NormDone /\ ~isinstance(call.value, "tuple")) =>
        /\ call.exc = NoExc
        /\ isinstance(call.ret, "tuple")
        /\ Len(call.ret.v) = call.nval
        /\ call.ret.v[1] = call.value
        /\ \A i \in 2..Len(call.ret.v) : call.ret.v[i] = None

\* C2 (amended): on any non-tuple value the call never raises; for every arity
\* n >= 1 it returns a sequence of length exactly n, first element the value, the
\* remaining n-1 elements null; for arity 0 it returns the one-element sequence
\* holding the value.
C2_BareValuePositiveArity ==
    (NormDone /\ ~isinstance(call.value, "tuple")) =>
        /\ call.exc = NoExc
        /\ isinstance(call.ret, "tuple")
        /\ Len(call.ret.v) = (IF call.nval >= 1 THEN call.nval ELSE 1)
        /\ call.ret.v[1] = call.value
        /\ \A i \in 2..Len(call.ret.v) : call.ret.v[i] = None

C2_Witness ==
    /\ NormDone
    /\ call.value = PyInt(1)
    /\ call.nval = 3
    /\ call.ret = Tuple(<<PyInt(1), None, None>>)

\* C3: on a tuple whose length differs from the expected arity the call fails
\* with ShapeError whatever the elements are, and returns nothing.
C3_WrongLengthShapeError ==
    (NormDone /\ isinstance(call.value, "tuple")
              /\ Len(call.value.v) # call.nval) =>
        call.exc = ShapeError /\ call.ret = None

C3_Witness ==
    /\ NormDone
    /\ call.value = Tuple(<<PyInt(0), PyInt(1), PyInt(0)>>)
    /\ call.nval = 4
    /\ call.exc = ShapeError

(***************************************************************************)
(* Claims on the constructors, under Spec.                                 *)
(***************************************************************************)
\* An observation constructor was called with a Point as location.
ObservationCalled ==
    /\ call.op \in ObservationClasses
    /\ call.state = "done"
    /\ call.args.location = APoint

\* The attributes of the object a call returned.
Returned == heap[call.ret.v].attrs

\* C4: for every observation class and every field that requires an envelope,
\* construction with a value that is no Parameter in that field fails with
\* TypeConstraintError, and construction with a Parameter in that field (all
\* other inputs valid) succeeds and the object exposes that same Parameter.
C4_EnvelopeFieldsChecked ==
    ObservationCalled =>
        /\ call.args.defect.kind = "plain" => call.exc = TypeConstraintError
        /\ call.args.defect.kind = "none" =>
              /\ call.exc = NoExc
              /\ \A i \in DOMAIN OwnBody(call.op) :
                    LET stmt == OwnBody(call.op)[i] IN
                    stmt.envelope =>
                        Returned[stmt.field] = call.args.attributes.v[stmt.key]

\* The accuracy the specification derives from an attribute mapping.
DerivedAccuracy(attributes) ==
    IF "Accuracy" \in DOMAIN attributes /\ attributes["Accuracy"] # None
    THEN attributes["Accuracy"]
    ELSE IF isinstance(attributes["Scale"], "int")
    THEN PyInt(2 * attributes["Scale"].v)
    ELSE None

\* C5: the accuracy of a constructed observation is the 'Accuracy' entry when
\* the key is present with a non-null value (0 included), otherwise (key absent
\* or value null) 2 x Scale for a numeric Scale, otherwise null.
C5_AccuracyDerivation ==
    (/\ ObservationCalled
     /\ \/ call.args.defect.kind = "none"
        \/ call.args.defect.kind = "missing" /\ call.args.defect.key = "Accuracy")
    =>
        /\ call.exc = NoExc
        /\ Returned["accuracy"] = DerivedAccuracy(call.args.attributes.v)

\* C6: for every observation class, construction from a mapping that lacks one
\* of 'Scale', 'Notes', 'Fault Section', 'Site Feature' fails with
\* MissingFieldError naming the absent key, and no object is produced.
C6_MissingKeyNamed ==
    (/\ ObservationCalled
     /\ call.args.defect.kind = "missing"
     /\ call.args.defect.key \in {"Scale", "Notes", "Fault Section", "Site Feature"})
    =>
        /\ call.exc = MissingFieldError(call.args.defect.key)
        /\ call.ret = None

\* C7: the end-to-end assembly succeeds at each of its steps: a slip rate
\* observation with valid envelopes is constructed; a section given three slip
\* observations and a trace geometry is constructed and its slip_observations
\* is that list of length 3, in order; a fault given a one-element sequence of
\* sections is constructed and exposes exactly one section.
C7_EndToEndAssembly ==
    /\ (ObservationCalled /\ call.op = "ObservationSlipRate"
                          /\ call.args.defect.kind = "none")
       => call.exc = NoExc
    /\ (/\ call.op = "NeotectonicSection"
        /\ Len(call.args.pos) = 3
        /\ call.args.defect.kind = "none"
        /\ DOMAIN call.args.kw = {"geometry", "slip_obs"}
        /\ Len(call.args.kw.slip_obs.v) = 3)
       => /\ call.exc = NoExc
          /\ isinstance(call.ret, "NeotectonicSection")
          /\ Returned["slip_observations"] = call.args.kw.slip_obs
    /\ (/\ call.op = "NeotectonicFault"
        /\ Len(call.args.pos) = 3
        /\ DOMAIN call.args.kw = {}
        /\ Len(call.args.pos[3].v) = 1)
       => /\ call.exc = NoExc
          /\ isinstance(call.ret, "NeotectonicFault")
          /\ Len(Returned["sections"].v) = 1

\* A fault was constructed from an identifier, a name and sections, with or
\* without an attribute mapping.
FaultCalled == call.op = "NeotectonicFault" /\ Len(call.args.pos) >= 3
WithAttributes == Len(call.args.pos) = 4 \/ DOMAIN call.args.kw = {"attributes"}

\* C8: with an attribute mapping, the fault's data is a BaseFault bundle built
\* from the mapping, and construction fails when an envelope field is no
\* Parameter; without one, construction succeeds and data is None.
C8_FaultSummaryData ==
    FaultCalled =>
        IF WithAttributes
        THEN /\ call.args.defect.kind = "plain" => call.exc # NoExc
             /\ call.args.defect.kind = "none" =>
                   /\ call.exc = NoExc
                   /\ isinstance(Returned["data"], "BaseFault")
        ELSE /\ call.exc = NoExc
             /\ Returned["data"] = None

\* C9: every Parameter that exists has minimum <= maximum when both are
\* non-null.
C9_MinimumNotAboveMaximum ==
    \A i \in DOMAIN heap :
        heap[i].cls = "Parameter" =>
            LET minimum == heap[i].attrs["minimum"]
                maximum == heap[i].attrs["maximum"]
            IN  (minimum # None /\ maximum # None) => minimum.v <= maximum.v

====
